---- MODULE Spec2Model ----
(***************************************************************************)
(* Model of the Khamenei Index runner: the three signal normalizers, the   *)
(* KhameneiAggregator (fusion, bounded history, rate of change, alert      *)
(* decision) and the polling loop of run_index.                            *)
(*                                                                         *)
(* Numbers.  The program computes with Python floats; the model computes   *)
(* with exact rationals <<n, d>> (d > 0, lowest terms).  Time is counted   *)
(* in whole minutes since a model epoch that falls on 00:00 UTC.           *)
(***************************************************************************)
EXTENDS Integers, Sequences, FiniteSets, TLC

VARIABLES
    now,                 \* the last reading of datetime.utcnow(), in minutes
    history,             \* KhameneiAggregator.history
    produced,            \* log: every index aggregate has returned, in order
    call,                \* the last API call made on a component, with its result
    last_alerted_level,  \* run_index: last_alerted_level
    pc,                  \* run_index: position in the polling loop; scraper main(): phase
    telegram_result,     \* run_index: telegram_result
    rial_result,         \* run_index: rial_result
    silence_result,      \* run_index: silence_result
    index,               \* run_index: index
    price_history,       \* RialSignal.price_history
    last_fetch_rate,     \* RialSignal.last_fetch_rate
    messages_table,      \* scraper.py: the rows of the ClickHouse table messages
    stats,               \* TelegramScraper.stats
    cursor               \* fetch_history: position in the iteration (0: not iterating)

vars == <<now, history, produced, call, last_alerted_level, pc, telegram_result,
          rial_result, silence_result, index, price_history, last_fetch_rate,
          messages_table, stats, cursor>>

\* The scraper is not part of the run: nothing stored, nothing counted.
ScraperIdle == messages_table = <<>> /\ stats = [inserted |-> 0, skipped |-> 0] /\ cursor = 0

\* Python's None, where a rational or a sequence is expected.
None == <<>>
\* A loop variable of run_index that is not bound yet.
Unbound == [unbound |-> TRUE]

(***************************************************************************)
(* Exact rational arithmetic.                                              *)
(***************************************************************************)
Abs(x) == IF x < 0 THEN -x ELSE x

RECURSIVE GCD(_, _)
GCD(a, b) == IF b = 0 THEN a ELSE GCD(b, a % b)

Rat(n, d) ==
    IF n = 0 THEN <<0, 1>>
    ELSE LET s == IF d < 0 THEN -1 ELSE 1
             g == GCD(Abs(n), Abs(d))
         IN  <<(s * n) \div g, (s * d) \div g>>

RInt(k) == <<k, 1>>
RAdd(a, b) == Rat(a[1] * b[2] + b[1] * a[2], a[2] * b[2])
RSub(a, b) == Rat(a[1] * b[2] - b[1] * a[2], a[2] * b[2])
RMul(a, b) == Rat(a[1] * b[1], a[2] * b[2])
RDiv(a, b) == Rat(a[1] * b[2], a[2] * b[1])
RLt(a, b) == a[1] * b[2] < b[1] * a[2]
RLe(a, b) == a[1] * b[2] <= b[1] * a[2]
RMin(a, b) == IF RLt(b, a) THEN b ELSE a
RMax(a, b) == IF RLt(a, b) THEN b ELSE a

(***************************************************************************)
(* signals/__init__.py: SignalOutput.  raw_value is kept as the evidence   *)
(* the normalizer attached (a short tag naming what it recorded).          *)
(***************************************************************************)
SignalOutput(name, value, raw_value, confidence, timestamp) ==
    [name |-> name, value |-> value, raw_value |-> raw_value,
     confidence |-> confidence, timestamp |-> timestamp]

(***************************************************************************)
(* aggregator.py: KhameneiAggregator.                                      *)
(***************************************************************************)
MinutesPerDay == 1440

\* deadline_date: 00:00 UTC of the market deadline, 90 days after the epoch.
deadline_date == 90 * MinutesPerDay

weight_names == <<"telegram_velocity", "rial_crash", "state_media_silence">>

weights == [telegram_velocity   |-> <<3, 5>>,
            rial_crash          |-> <<2, 5>>,
            state_media_silence |-> <<0, 1>>]

threshold_yellow == 35
threshold_red == 65
max_history == 60

Levels == {"GREEN", "YELLOW", "RED"}

\* get_days_remaining: max(0, (deadline_date - now).days); timedelta.days floors.
get_days_remaining(t) ==
    LET delta == (deadline_date - t) \div MinutesPerDay
    IN  IF delta > 0 THEN delta ELSE 0

\* The piecewise multiplier as a function of days.
MultiplierOfDays(days) ==
    IF days >= 60 THEN RInt(1)
    ELSE IF days >= 30 THEN RAdd(RInt(1), Rat(60 - days, 150))
    ELSE IF days >= 14 THEN RAdd(<<6, 5>>, Rat(30 - days, 53))
    ELSE IF days >= 7 THEN RAdd(<<3, 2>>, Rat(14 - days, 14))
    ELSE IF days >= 3 THEN RAdd(RInt(2), Rat(7 - days, 4))
    ELSE RInt(3)

get_time_pressure_multiplier(t) == MultiplierOfDays(get_days_remaining(t))

\* signal_map = {s.name: s for s in signals}: the last signal of a name wins.
SignalMap(signals) ==
    LET names == {signals[i].name : i \in DOMAIN signals}
        lastOf(nm) == CHOOSE i \in DOMAIN signals :
                          /\ signals[i].name = nm
                          /\ \A j \in DOMAIN signals : signals[j].name = nm => j <= i
    IN  [nm \in names |-> signals[lastOf(nm)]]

\* effective_weight = weight * s.confidence
EffectiveWeight_IgnoreConfidence(weight, confidence) == weight

EffectiveWeight(weight, confidence) == RMul(weight, confidence)

\* The loop over self.weights.items(), from configured name k on.
RECURSIVE WeightLoop(_, _, _)
WeightLoop(signal_map, k, acc) ==
    IF k > Len(weight_names) THEN acc
    ELSE LET name == weight_names[k]
             weight == weights[name]
         IN  IF name \in DOMAIN signal_map
             THEN LET s == signal_map[name]
                      effective_weight == EffectiveWeight(weight, s.confidence)
                  IN  WeightLoop(signal_map, k + 1,
                        [weighted_sum |-> RAdd(acc.weighted_sum, RMul(s.value, effective_weight)),
                         weighted_confidence |-> RAdd(acc.weighted_confidence, RMul(s.confidence, weight)),
                         total_weight |-> RAdd(acc.total_weight, effective_weight)])
             ELSE WeightLoop(signal_map, k + 1, acc)

\* A denominator that stops at the first weight.
SumWeights_FirstOnly(k) == weights[weight_names[k]]

\* sum(self.weights.values()), from configured name k on.
RECURSIVE SumWeights(_)
SumWeights(k) ==
    IF k > Len(weight_names) THEN RInt(0)
    ELSE RAdd(weights[weight_names[k]], SumWeights(k + 1))

\* score = min(100, raw_score * time_multiplier)
ClampScore_NoMin(raw_score, time_multiplier) == RMul(raw_score, time_multiplier)

ClampScore(raw_score, time_multiplier) ==
    RMin(RInt(100), RMul(raw_score, time_multiplier))

\* The level chosen from the score and self.thresholds.
LevelOf_StrictRed(score) ==
    IF RLt(RInt(threshold_red), score) THEN "RED"
    ELSE IF RLe(RInt(threshold_yellow), score) THEN "YELLOW"
    ELSE "GREEN"

LevelOf(score) ==
    IF RLe(RInt(threshold_red), score) THEN "RED"
    ELSE IF RLe(RInt(threshold_yellow), score) THEN "YELLOW"
    ELSE "GREEN"

\* The KhameneiIndex that aggregate(signals) builds when the clock reads t.
AggregateIndex(signals, t) ==
    LET acc == WeightLoop(SignalMap(signals), 1,
                   [weighted_sum |-> RInt(0), weighted_confidence |-> RInt(0),
                    total_weight |-> RInt(0)])
        positive == RLt(RInt(0), acc.total_weight)
        raw_score == IF positive THEN RDiv(acc.weighted_sum, acc.total_weight) ELSE RInt(0)
        confidence == IF positive THEN RDiv(acc.weighted_confidence, SumWeights(1))
                      ELSE RInt(0)
        time_multiplier == get_time_pressure_multiplier(t)
        score == ClampScore(raw_score, time_multiplier)
    IN  [score |-> score, confidence |-> confidence, level |-> LevelOf(score),
         timestamp |-> t, days_remaining |-> get_days_remaining(t)]

\* self.history.append(index); if len(self.history) > self.max_history: pop(0)
HistoryAppend_PopNewest(h, idx) ==
    LET h1 == Append(h, idx)
    IN  IF Len(h1) > max_history THEN SubSeq(h1, 1, Len(h1) - 1) ELSE h1

HistoryAppend(h, idx) ==
    LET h1 == Append(h, idx)
    IN  IF Len(h1) > max_history THEN Tail(h1) ELSE h1

\* get_rate_of_change(minutes) when the clock reads t.
get_rate_of_change_NoWindow(h, minutes, t) ==
    IF Len(h) < 2 THEN None
    ELSE RSub(h[Len(h)].score, h[1].score)

get_rate_of_change(h, minutes, t) ==
    IF Len(h) < 2 THEN None
    ELSE LET cutoff == t - minutes
             recent == SelectSeq(h, LAMBDA e : e.timestamp >= cutoff)
         IN  IF Len(recent) < 2 THEN None
             ELSE RSub(recent[Len(recent)].score, recent[1].score)

\* should_alert(current, last_alerted_level) when the clock reads t.
should_alert_NoRepeatRed(h, current, last, t) ==
    IF current.level # last THEN TRUE
    ELSE LET roc == get_rate_of_change(h, 10, t)
         IN  IF roc # None /\ roc # RInt(0) /\ RLt(RInt(20), roc) THEN TRUE
             ELSE FALSE

should_alert(h, current, last, t) ==
    IF current.level # last THEN TRUE
    ELSE IF current.level = "RED" THEN TRUE
    ELSE LET roc == get_rate_of_change(h, 10, t)
         IN  IF roc # None /\ roc # RInt(0) /\ RLt(RInt(20), roc) THEN TRUE
             ELSE FALSE

(***************************************************************************)
(* signals/telegram_signal.py.  A message text is the set of the phrases   *)
(* of the vocabulary that occur in it (the empty set is the empty string); *)
(* a keyword is in the text when it is one of them or a substring of one.  *)
(***************************************************************************)
KHAMENEI_KEYWORDS ==
    <<"khamenei_zwnj", "khamenei_space", "rahbar_enghelab", "rahbar_moazzam",
      "rahbar_jomhuri_eslami", "ayatollah_khamenei_zwnj">>

CRITICAL_KEYWORDS ==
    <<"marg", "fot", "dargozasht", "bimarestan", "bastari", "sekte",
      "hamle_ghalbi", "amal_jarrahi", "vakhim", "bohrani", "hal_omumi",
      "natavani", "natavani_az_anjam_vazayef", "gheyr_faal",
      "gheybat", "napadid", "adam_hozur",
      "janeshin", "janeshini", "entekhab_janeshin", "elam_janeshin",
      "namzadha_ehtemali", "marhale_gozar", "shora_enteghali",
      "tayin_sarparast", "moaven_rahbari",
      "majles_khobregan", "khobregan_rahbari", "jalase_fogholade_khobregan",
      "jalase_ezterari", "gozaresh_mahramane_khobregan",
      "estefa", "kenaregiri", "barkenari", "azl", "salb_salahiyat",
      "laghv_ekhtiyar", "payan_rahbari", "tamam_shodan_dore",
      "azaye_omumi", "namaz_meyyet", "vasiyat">>

ROUTINE_KEYWORDS ==
    <<"didar", "sokhanrani", "payam", "bayaniye", "tashakor", "ghadrdani",
      "salgard", "marasem", "tabrik", "hokm", "entesab">>

slogan_patterns == <<"marg_bar_khamene", "marg_bar">>

\* <<a, b>>: the string a is a proper substring of the string b.
SubstringOf ==
    { <<"khamenei_zwnj", "ayatollah_khamenei_zwnj">>,
      <<"khamenei_zwnj", "marg_bar_khamenei_zwnj">>,
      <<"marg_bar_khamene", "marg_bar_khamenei_zwnj">>,
      <<"marg_bar", "marg_bar_khamenei_zwnj">>,
      <<"marg", "marg_bar_khamenei_zwnj">>,
      <<"marg_bar", "marg_bar_khamene">>,
      <<"marg", "marg_bar_khamene">>,
      <<"marg", "marg_bar">>,
      <<"natavani", "natavani_az_anjam_vazayef">>,
      <<"janeshin", "janeshini">>,
      <<"janeshin", "entekhab_janeshin">>,
      <<"janeshin", "elam_janeshin">>,
      <<"hal", "hal_omumi">>,
      <<"khobregan", "majles_khobregan">>,
      <<"khobregan", "khobregan_rahbari">>,
      <<"khobregan", "jalase_fogholade_khobregan">>,
      <<"khobregan", "gozaresh_mahramane_khobregan">> }

\* kw in text
In(kw, text) == \E p \in text : p = kw \/ <<kw, p>> \in SubstringOf

\* any(kw in text for kw in kws)
AnyIn(kws, text) == \E i \in DOMAIN kws : In(kws[i], text)

\* The two keyword loops of _score_message, from keyword k on.
RECURSIVE CriticalLoop(_, _, _, _)
CriticalLoop(text, is_slogan, k, score) ==
    IF k > Len(CRITICAL_KEYWORDS) THEN score
    ELSE LET kw == CRITICAL_KEYWORDS[k]
         IN  IF In(kw, text) /\ ~(kw = "marg" /\ is_slogan)
             THEN CriticalLoop(text, is_slogan, k + 1, score + 2)
             ELSE CriticalLoop(text, is_slogan, k + 1, score)

RECURSIVE RoutineLoop(_, _, _)
RoutineLoop(text, k, score) ==
    IF k > Len(ROUTINE_KEYWORDS) THEN score
    ELSE IF In(ROUTINE_KEYWORDS[k], text)
         THEN RoutineLoop(text, k + 1, score - 1)
         ELSE RoutineLoop(text, k + 1, score)

IMax(a, b) == IF a >= b THEN a ELSE b
IMin(a, b) == IF a <= b THEN a ELSE b

\* A scorer that does not look for the subject first.
score_message_NoSubjectCheck(text) ==
    IF text = {} THEN -1
    ELSE LET is_slogan == AnyIn(slogan_patterns, text)
             s1 == CriticalLoop(text, is_slogan, 1, 0)
             s2 == RoutineLoop(text, 1, s1)
             s5 == IF AnyIn(<<"fot", "dargozasht">>, text) /\ ~is_slogan
                   THEN IMax(s2, 4) ELSE s2
         IN  IMax(-1, IMin(5, s5))

\* TelegramSignal._score_message(text)
score_message(text) ==
    IF text = {} THEN -1
    ELSE IF ~AnyIn(KHAMENEI_KEYWORDS, text) THEN -1
    ELSE LET is_slogan == AnyIn(slogan_patterns, text)
             s1 == CriticalLoop(text, is_slogan, 1, 0)
             s2 == RoutineLoop(text, 1, s1)
             s3 == IF /\ AnyIn(<<"bimarestan", "bastari", "sekte">>, text)
                      /\ AnyIn(<<"vakhim", "bohrani", "hal">>, text)
                   THEN s2 + 3 ELSE s2
             s4 == IF In("janeshin", text) /\ In("khobregan", text)
                   THEN s3 + 3 ELSE s3
             s5 == IF AnyIn(<<"fot", "dargozasht">>, text) /\ ~is_slogan
                   THEN IMax(s4, 4) ELSE s4
         IN  IMax(-1, IMin(5, s5))

\* The classification loop of fetch over the rows from row k on; a row is
\* [text, channel] and acc holds the three lists.
RECURSIVE ClassifyLoop(_, _, _)
ClassifyLoop(messages, k, acc) ==
    IF k > Len(messages) THEN acc
    ELSE LET m == messages[k]
             score == score_message(m.text)
         IN  IF m.text = {} THEN ClassifyLoop(messages, k + 1, acc)
             ELSE IF score >= 3
             THEN ClassifyLoop(messages, k + 1,
                      [acc EXCEPT !.critical = Append(@,
                          [text |-> m.text, score |-> score, channel |-> m.channel])])
             ELSE IF score <= 0
             THEN ClassifyLoop(messages, k + 1,
                      [acc EXCEPT !.routine = Append(@, m.text)])
             ELSE ClassifyLoop(messages, k + 1,
                      [acc EXCEPT !.unclear = Append(@, m.text)])

\* The step function of the critical count.
BaseValue(critical_count) ==
    IF critical_count = 0 THEN RInt(0)
    ELSE IF critical_count = 1 THEN RInt(25)
    ELSE IF critical_count = 2 THEN RInt(50)
    ELSE IF critical_count = 3 THEN RInt(75)
    ELSE RInt(100)

\* An amplification that knows the 1.3 factor only.
Amplify_NoThird(normalized, critical_channels) ==
    IF critical_channels >= 2
    THEN RMin(RInt(100), RMul(normalized, <<13, 10>>)) ELSE normalized

\* The two amplification statements, one after the other.
Amplify(normalized, critical_channels) ==
    LET n1 == IF critical_channels >= 2
              THEN RMin(RInt(100), RMul(normalized, <<13, 10>>)) ELSE normalized
    IN  IF critical_channels >= 3
        THEN RMin(RInt(100), RMul(n1, <<3, 2>>)) ELSE n1

TelegramConfidence(total_messages) ==
    IF total_messages = 0 THEN <<3, 10>>
    ELSE IF total_messages < 10 THEN <<3, 5>>
    ELSE <<9, 10>>

\* The SignalOutput of the except branch of a normalizer's query.
FailedSignal_HalfConfidence(name, cause, t) ==
    SignalOutput(name, RInt(0), [error |-> cause], <<1, 2>>, t)

FailedSignal(name, cause, t) ==
    SignalOutput(name, RInt(0), [error |-> cause], RInt(0), t)

\* TelegramSignal.fetch() when the clock reads t; q is what the query does:
\* [ok |-> FALSE] when it raises, [ok |-> TRUE, rows |-> the rows] otherwise.
TelegramFetch(q, t) ==
    IF ~q.ok THEN FailedSignal("telegram_velocity", "query_error", t)
    ELSE LET messages == q.rows
             acc == ClassifyLoop(messages, 1,
                        [critical |-> <<>>, routine |-> <<>>, unclear |-> <<>>])
             critical_count == Len(acc.critical)
             critical_channels ==
                 Cardinality({acc.critical[i].channel : i \in DOMAIN acc.critical})
             normalized == Amplify(BaseValue(critical_count), critical_channels)
         IN  SignalOutput("telegram_velocity", normalized,
                 [critical_count |-> critical_count,
                  critical_messages |-> SubSeq(acc.critical, 1, IMin(5, critical_count)),
                  routine_count |-> Len(acc.routine),
                  unclear_count |-> Len(acc.unclear),
                  total_khamenei_mentions |-> Len(messages),
                  channels_reporting_critical |-> critical_channels,
                  window_hours |-> 24],
                 TelegramConfidence(Len(messages)), t)

(***************************************************************************)
(* signals/rial_signal.py.  The page is what the three selectors of fetch  *)
(* find: for each, no element ("absent"), an element whose text int()      *)
(* rejects ("bad"), or an element holding the integer val ("int").         *)
(***************************************************************************)
history_hours == 6
price_history_maxlen == history_hours * 12

Absent == [kind |-> "absent", val |-> 0]
Bad == [kind |-> "bad", val |-> 0]
IntText(n) == [kind |-> "int", val |-> n]

\* Python truthiness of current_rate / past_rate: <<>> is None, <<n>> the int n.
Truthy(rate) == rate # None /\ rate[1] # 0

\* One selector of the try block: cur is current_rate before it.
SelectorStep(cur, field) ==
    IF cur.raised \/ Truthy(cur.current_rate) THEN cur
    ELSE IF field.kind = "absent" THEN cur
    ELSE IF field.kind = "bad" THEN [raised |-> TRUE, current_rate |-> cur.current_rate]
    ELSE [raised |-> FALSE, current_rate |-> <<field.val>>]

\* The try block: method 1 (#usd_sell), method 2 (table row), method 3 (data attribute).
ParseRate(page) ==
    LET m1 == IF page.usd_sell.kind = "absent" THEN [raised |-> FALSE, current_rate |-> None]
              ELSE IF page.usd_sell.kind = "bad" THEN [raised |-> TRUE, current_rate |-> None]
              ELSE [raised |-> FALSE, current_rate |-> <<page.usd_sell.val>>]
        m2 == SelectorStep(m1, page.usd_row)
    IN  SelectorStep(m2, page.usd_data)

\* deque(maxlen).append
DequeAppend(ph, sample) ==
    IF Len(ph) >= price_history_maxlen THEN Append(Tail(ph), sample)
    ELSE Append(ph, sample)

\* RialSignal._get_rate_at(target_time): scan from the newest sample, from index k down.
RECURSIVE RateAtFrom(_, _, _)
RateAtFrom(ph, k, target_time) ==
    IF k = 0 THEN None
    ELSE IF ph[k][1] <= target_time THEN <<ph[k][2]>>
    ELSE RateAtFrom(ph, k - 1, target_time)

\* A scan that stops at the oldest sample instead of the newest one.
get_rate_at_Oldest(ph, target_time) ==
    IF Len(ph) > 0 /\ ph[1][1] <= target_time THEN <<ph[1][2]>> ELSE None

get_rate_at(ph, target_time) == RateAtFrom(ph, Len(ph), target_time)

\* ((current_rate - past_rate) / past_rate) * 100 if past_rate else 0
PctChange(current_rate, past_rate) ==
    IF Truthy(past_rate)
    THEN RMul(Rat(current_rate - past_rate[1], past_rate[1]), RInt(100))
    ELSE RInt(0)

\* A return of fetch before the sample is stored: the state is left as it was.
RialFailure_StoresSample(cause, ph, lfr, t) ==
    [ret |-> FailedSignal("rial_crash", cause, t),
     price_history |-> DequeAppend(ph, <<t, 0>>), last_fetch_rate |-> lfr]

RialFailure(cause, ph, lfr, t) ==
    [ret |-> FailedSignal("rial_crash", cause, t),
     price_history |-> ph, last_fetch_rate |-> lfr]

\* RialSignal.fetch() when the clock reads t, on price_history ph and
\* last_fetch_rate lfr; q is what the GET does: [ok |-> FALSE] when it raises
\* (connection error, timeout, HTTP error status), [ok |-> TRUE, page |-> ...].
RialFetch(q, ph, lfr, t) ==
    IF ~q.ok THEN RialFailure("fetch_failed", ph, lfr, t)
    ELSE LET parsed == ParseRate(q.page)
         IN  IF parsed.raised THEN RialFailure("parse_failed", ph, lfr, t)
             ELSE IF ~Truthy(parsed.current_rate) THEN RialFailure("rate_not_found", ph, lfr, t)
             ELSE LET current_rate == parsed.current_rate[1]
                      ph1 == DequeAppend(ph, <<t, current_rate>>)
                      pct_change_1h == PctChange(current_rate, get_rate_at(ph1, t - 60))
                      pct_change_4h == PctChange(current_rate, get_rate_at(ph1, t - 240))
                      normalized == IF RLt(RInt(0), pct_change_1h)
                                    THEN RMin(RInt(100), RMul(pct_change_1h, RInt(20)))
                                    ELSE RInt(0)
                      history_minutes == Len(ph1) * 5
                      confidence == RMin(<<19, 20>>,
                                         RAdd(<<1, 2>>, RMul(Rat(history_minutes, 120), <<9, 20>>)))
                  IN  [ret |-> SignalOutput("rial_crash", normalized,
                                   [rate |-> current_rate,
                                    change_1h_pct |-> pct_change_1h,
                                    change_4h_pct |-> pct_change_4h,
                                    history_depth_minutes |-> history_minutes],
                                   confidence, t),
                       price_history |-> ph1,
                       last_fetch_rate |-> <<current_rate>>]

(***************************************************************************)
(* signals/silence_signal.py.                                              *)
(***************************************************************************)
REGIME_CHANNELS == <<"tasnimnews", "FarsNewsAgency", "isnanews">>

\* The hour of the clock without the Tehran offset.
TehranHour_UTC(t) == (t \div 60) % 24

\* (now + 3:30).hour
TehranHour(t) == ((t + 210) \div 60) % 24

\* The number of channel queries fetch issues when the clock reads t: none
\* on the early return, one per regime channel in the loop.
SilenceQueriesIssued(t) ==
    IF ~(8 <= TehranHour(t) /\ TehranHour(t) <= 23) THEN 0
    ELSE Len(REGIME_CHANNELS)

\* The loop over the channels, from channel k on.  q[k] is what the query of
\* channel k does: status "error" (it raises), "no_data" (no row or a null
\* date) or "post" with gap, the minutes from the last post to now.
RECURSIVE ChannelLoop(_, _, _)
ChannelLoop(q, k, acc) ==
    IF k > Len(REGIME_CHANNELS) THEN acc
    ELSE IF q[k].status = "post"
    THEN LET hours_silent == Rat(q[k].gap, 60)
         IN  ChannelLoop(q, k + 1,
                 [silence_data |-> Append(acc.silence_data,
                                      [status |-> "post", hours |-> hours_silent]),
                  max_silence_hours |-> RMax(acc.max_silence_hours, hours_silent),
                  channels_checked |-> acc.channels_checked + 1])
    ELSE ChannelLoop(q, k + 1,
             [acc EXCEPT !.silence_data =
                  Append(@, [status |-> q[k].status, hours |-> RInt(0)])])

\* SilenceSignal.fetch() when the clock reads t.
SilenceFetch(q, t) ==
    LET tehran_hour == TehranHour(t)
        is_business_hours == 8 <= tehran_hour /\ tehran_hour <= 23
    IN  IF ~is_business_hours
        THEN SignalOutput("state_media_silence", RInt(0),
                 [reason |-> "outside_tehran_hours", tehran_hour |-> tehran_hour],
                 <<3, 10>>, t)
        ELSE LET acc == ChannelLoop(q, 1,
                            [silence_data |-> <<>>, max_silence_hours |-> RInt(0),
                             channels_checked |-> 0])
                 normalized ==
                     IF RLe(acc.max_silence_hours, RInt(1)) THEN RInt(0)
                     ELSE RMin(RInt(100),
                               RMul(RSub(acc.max_silence_hours, RInt(1)), RInt(50)))
                 confidence ==
                     IF acc.channels_checked = 0 THEN RInt(0)
                     ELSE RMin(<<4, 5>>,
                               RAdd(<<2, 5>>,
                                    RMul(Rat(acc.channels_checked, Len(REGIME_CHANNELS)),
                                         <<2, 5>>)))
             IN  SignalOutput("state_media_silence", normalized,
                     [max_silence_hours |-> acc.max_silence_hours,
                      channel_silence |-> acc.silence_data,
                      tehran_hour |-> tehran_hour,
                      is_business_hours |-> is_business_hours],
                     confidence, t)

(***************************************************************************)
(* The aggregator driven through its API by an arbitrary client.           *)
(***************************************************************************)
Sig(name, value, confidence) == SignalOutput(name, value, "evidence", confidence, 0)

LoopIdle ==
    UNCHANGED <<last_alerted_level, pc, telegram_result, rial_result,
                silence_result, index, price_history, last_fetch_rate,
                   messages_table, stats, cursor>>

InitAt(starts) ==
    /\ now \in starts
    /\ history = <<>>
    /\ produced = <<>>
    /\ call = [op |-> "init"]
    /\ last_alerted_level = "GREEN"
    /\ pc = "api"
    /\ telegram_result = Unbound
    /\ rial_result = Unbound
    /\ silence_result = Unbound
    /\ index = Unbound
    /\ price_history = <<>>
    /\ last_fetch_rate = None
    /\ ScraperIdle

\* Noon of the day that leaves d whole days to the deadline.
NoonWithDays(d) == deadline_date - d * MinutesPerDay - 720

\* index = aggregator.aggregate(signals), the clock reading t.
Aggregate(signals, t) ==
    LET idx == AggregateIndex(signals, t)
    IN  /\ now' = t
        /\ history' = HistoryAppend(history, idx)
        /\ produced' = Append(produced, idx)
        /\ call' = [op |-> "aggregate", signals |-> signals, ret |-> idx]

AggregateCall(inputs, delays, maxCalls) ==
    /\ Len(produced) < maxCalls
    /\ \E signals \in inputs, d \in delays : Aggregate(signals, now + d)
    /\ LoopIdle

\* aggregator.should_alert(current, last), current being the index just returned.
ShouldAlertCall ==
    /\ call.op = "aggregate"
    /\ \E last \in Levels :
           call' = [op |-> "should_alert", current |-> call.ret, last |-> last,
                    ret |-> should_alert(history, call.ret, last, now)]
    /\ UNCHANGED <<now, history, produced>>
    /\ LoopIdle

\* aggregator.get_rate_of_change(minutes)
GetRateOfChangeCall(windows) ==
    /\ call.op = "aggregate"
    /\ \E minutes \in windows :
           call' = [op |-> "get_rate_of_change", minutes |-> minutes,
                    ret |-> get_rate_of_change(history, minutes, now)]
    /\ UNCHANGED <<now, history, produced>>
    /\ LoopIdle

\* aggregator.get_time_pressure_multiplier()
GetMultiplierCall ==
    /\ call.op = "init"
    /\ call' = [op |-> "get_time_pressure_multiplier",
                days |-> get_days_remaining(now),
                ret |-> get_time_pressure_multiplier(now)]
    /\ UNCHANGED <<now, history, produced>>
    /\ LoopIdle

(***************************************************************************)
(* SpecAgg: a few aggregate calls minutes apart, each followed by queries  *)
(* of the alert decision and of the rate of change.                        *)
(***************************************************************************)
MaxCalls == 3

\* Days to the deadline at the start: one in every segment of the multiplier.
StartDays == {0, 3, 10, 14, 45, 60}
\* Minutes the clock advances between two aggregate calls.
AggDelays == {5, 11}
\* Windows asked of get_rate_of_change.
Windows == {5, 10}

DeepInputs ==
    { <<>>,
      <<Sig("telegram_velocity", RInt(20), RInt(1))>>,
      <<Sig("telegram_velocity", RInt(30), RInt(1))>>,
      <<Sig("telegram_velocity", RInt(40), RInt(1))>>,
      <<Sig("telegram_velocity", RInt(40), RInt(1)), Sig("rial_crash", RInt(100), RInt(1))>>,
      <<Sig("rial_crash", RInt(100), <<1, 2>>)>> }

InitAgg == InitAt({NoonWithDays(d) : d \in StartDays})

NextAgg ==
    \/ AggregateCall(DeepInputs, AggDelays, MaxCalls)
    \/ ShouldAlertCall
    \/ GetRateOfChangeCall(Windows)

SpecAgg == InitAgg /\ [][NextAgg]_vars

(***************************************************************************)
(* SpecFuse: one or two aggregate calls with any list of up to two signals *)
(* of the pool, on any day up to MaxDays days before the deadline.         *)
(***************************************************************************)
MaxFuseCalls == 2
MaxDays == 61

SigPool ==
    { Sig("telegram_velocity", RInt(35), <<3, 5>>),
      Sig("telegram_velocity", RInt(100), RInt(1)),
      Sig("telegram_velocity", RInt(50), RInt(0)),
      Sig("rial_crash", RInt(65), RInt(1)),
      Sig("rial_crash", RInt(0), RInt(0)),
      Sig("state_media_silence", RInt(100), <<4, 5>>),
      Sig("unknown_signal", RInt(100), RInt(1)) }

AggInputs ==
    {<<>>} \cup {<<a>> : a \in SigPool} \cup {<<a, b>> : a, b \in SigPool}

InitFuse == InitAt({NoonWithDays(d) : d \in 0..MaxDays})

NextFuse ==
    \/ AggregateCall(AggInputs, {1}, MaxFuseCalls)
    \/ GetMultiplierCall

SpecFuse == InitFuse /\ [][NextFuse]_vars

(***************************************************************************)
(* SpecHist: sustained appends, one aggregate call a minute, beyond the    *)
(* capacity of the history.  The n-th call carries a telegram value that   *)
(* depends on n, so that every produced index is told from the others.     *)
(***************************************************************************)
MaxProduced == 62

HistInputs(n) == {<<Sig("telegram_velocity", RInt((n * 7) % 101), RInt(1))>>}

InitHist == InitAt({NoonWithDays(d) : d \in StartDays})

NextHist == AggregateCall(HistInputs(Len(produced)), {1}, MaxProduced)

SpecHist == InitHist /\ [][NextHist]_vars

(***************************************************************************)
(* main.py: the polling loop of run_index, one statement a step.           *)
(*   telegram -> rial -> silence -> aggregate -> print -> should_alert     *)
(*   -> branch -> sleep -> telegram ...                                    *)
(* print may raise (stdout closed, an encoding that has no emoji); the     *)
(* except clause of the loop then logs and the loop goes on to the sleep.  *)
(***************************************************************************)
MaxCycles == 2

\* poll_interval, in minutes.
poll_interval == 1

\* The moment of the day minuteOfDay (1..1439) that leaves d whole days.
TimeWithDays(d, minuteOfDay) == deadline_date - (d + 1) * MinutesPerDay + minuteOfDay

\* 12:00 UTC with 60 days left; 20:25 UTC (23:55 in Tehran) with 10 days left.
LoopStarts == {TimeWithDays(60, 720), TimeWithDays(10, 1225)}

\* Minutes from one cycle to the next: the poll interval, or a stall on top of it.
LoopDelays == {poll_interval, poll_interval + 10}

Row(text, channel) == [text |-> text, channel |-> channel]

DeceaseText == {"khamenei_zwnj", "dargozasht"}
VisitText == {"rahbar_enghelab", "didar"}

\* What the telegram query does in a cycle.
LoopTelegramQueries ==
    { [ok |-> FALSE, rows |-> <<>>],
      [ok |-> TRUE, rows |-> <<>>],
      [ok |-> TRUE, rows |-> <<Row(DeceaseText, "ch1"), Row(VisitText, "ch1")>>],
      [ok |-> TRUE, rows |-> <<Row(DeceaseText, "ch1"), Row(DeceaseText, "ch2")>>] }

Page(usd_sell, usd_row, usd_data) ==
    [usd_sell |-> usd_sell, usd_row |-> usd_row, usd_data |-> usd_data]

\* What the GET of the rate page does in a cycle.
LoopRialQueries ==
    { [ok |-> FALSE, page |-> Page(Absent, Absent, Absent)],
      [ok |-> TRUE, page |-> Page(IntText(100), Absent, Absent)],
      [ok |-> TRUE, page |-> Page(Absent, Bad, Absent)] }

Post(gap) == [status |-> "post", gap |-> gap]
QueryError == [status |-> "error", gap |-> 0]
NoData == [status |-> "no_data", gap |-> 0]

\* What the three channel queries of the silence signal do in a cycle.
LoopSilenceQueries ==
    { <<QueryError, QueryError, QueryError>>,
      <<QueryError, Post(30), Post(90)>>,
      <<Post(30), NoData, Post(240)>> }

InitLoop ==
    /\ now \in LoopStarts
    /\ history = <<>>
    /\ produced = <<>>
    /\ call = [op |-> "init"]
    /\ last_alerted_level = "GREEN"
    /\ pc = "telegram"
    /\ telegram_result = Unbound
    /\ rial_result = Unbound
    /\ silence_result = Unbound
    /\ index = Unbound
    /\ price_history = <<>>
    /\ last_fetch_rate = None
    /\ ScraperIdle

\* telegram_result = telegram_signal.fetch()
LoopTelegram ==
    /\ pc = "telegram"
    /\ Len(produced) < MaxCycles
    /\ \E q \in LoopTelegramQueries : telegram_result' = TelegramFetch(q, now)
    /\ pc' = "rial"
    /\ UNCHANGED <<now, history, produced, call, last_alerted_level, rial_result,
                   silence_result, index, price_history, last_fetch_rate,
                   messages_table, stats, cursor>>

\* rial_result = await rial_signal.fetch()
LoopRial ==
    /\ pc = "rial"
    /\ \E q \in LoopRialQueries :
           LET r == RialFetch(q, price_history, last_fetch_rate, now)
           IN  /\ rial_result' = r.ret
               /\ price_history' = r.price_history
               /\ last_fetch_rate' = r.last_fetch_rate
               /\ UNCHANGED <<messages_table, stats, cursor>>
    /\ pc' = "silence"
    /\ UNCHANGED <<now, history, produced, call, last_alerted_level, telegram_result,
                   silence_result, index>>

\* silence_result = silence_signal.fetch()
LoopSilence ==
    /\ pc = "silence"
    /\ \E q \in LoopSilenceQueries : silence_result' = SilenceFetch(q, now)
    /\ pc' = "aggregate"
    /\ UNCHANGED <<now, history, produced, call, last_alerted_level, telegram_result,
                   rial_result, index, price_history, last_fetch_rate,
                   messages_table, stats, cursor>>

\* signals = [...]; index = aggregator.aggregate(signals)
LoopAggregate ==
    /\ pc = "aggregate"
    /\ LET signals == <<telegram_result, rial_result, silence_result>>
           idx == AggregateIndex(signals, now)
       IN  /\ index' = idx
           /\ history' = HistoryAppend(history, idx)
           /\ produced' = Append(produced, idx)
    /\ pc' = "print"
    /\ UNCHANGED <<now, call, last_alerted_level, telegram_result, rial_result,
                   silence_result, price_history, last_fetch_rate,
                   messages_table, stats, cursor>>

\* The four print statements succeed.
LoopPrint ==
    /\ pc = "print"
    /\ pc' = "should_alert"
    /\ UNCHANGED <<now, history, produced, call, last_alerted_level, telegram_result,
                   rial_result, silence_result, index, price_history, last_fetch_rate,
                   messages_table, stats, cursor>>

\* A print statement raises: except Exception logs the error.
LoopPrintRaises ==
    /\ pc = "print"
    /\ pc' = "sleep"
    /\ call' = [op |-> "except"]
    /\ UNCHANGED <<now, history, produced, last_alerted_level, telegram_result,
                   rial_result, silence_result, index, price_history, last_fetch_rate,
                   messages_table, stats, cursor>>

\* aggregator.should_alert(index, last_alerted_level), the condition of the if.
LoopShouldAlert ==
    /\ pc = "should_alert"
    /\ call' = [op |-> "should_alert", current |-> index, last |-> last_alerted_level,
                ret |-> should_alert(history, index, last_alerted_level, now)]
    /\ pc' = "branch"
    /\ UNCHANGED <<now, history, produced, last_alerted_level, telegram_result,
                   rial_result, silence_result, index, price_history, last_fetch_rate,
                   messages_table, stats, cursor>>

\* The body of the if: send_alert (which catches its own errors), then
\* last_alerted_level = index.level.
LoopAlert_SkipsAssignment ==
    /\ pc = "branch"
    /\ call.ret
    /\ pc' = "sleep"
    /\ UNCHANGED <<now, history, produced, call, last_alerted_level, telegram_result,
                   rial_result, silence_result, index, price_history, last_fetch_rate,
                   messages_table, stats, cursor>>

LoopAlert ==
    /\ pc = "branch"
    /\ call.ret
    /\ last_alerted_level' = index.level
    /\ pc' = "sleep"
    /\ UNCHANGED <<now, history, produced, call, telegram_result, rial_result,
                   silence_result, index, price_history, last_fetch_rate,
                   messages_table, stats, cursor>>

\* The if is not taken.
LoopNoAlert_ResetsLevel ==
    /\ pc = "branch"
    /\ ~call.ret
    /\ last_alerted_level' = "GREEN"
    /\ pc' = "sleep"
    /\ UNCHANGED <<now, history, produced, call, telegram_result, rial_result,
                   silence_result, index, price_history, last_fetch_rate,
                   messages_table, stats, cursor>>

LoopNoAlert ==
    /\ pc = "branch"
    /\ ~call.ret
    /\ pc' = "sleep"
    /\ UNCHANGED <<now, history, produced, call, last_alerted_level, telegram_result,
                   rial_result, silence_result, index, price_history, last_fetch_rate,
                   messages_table, stats, cursor>>

\* await asyncio.sleep(poll_interval)
LoopSleep ==
    /\ pc = "sleep"
    /\ \E d \in LoopDelays : now' = now + d
    /\ pc' = "telegram"
    /\ UNCHANGED <<history, produced, call, last_alerted_level, telegram_result,
                   rial_result, silence_result, index, price_history, last_fetch_rate,
                   messages_table, stats, cursor>>

NextLoop ==
    \/ LoopTelegram
    \/ LoopRial
    \/ LoopSilence
    \/ LoopAggregate
    \/ LoopPrint
    \/ LoopPrintRaises
    \/ LoopShouldAlert
    \/ LoopAlert
    \/ LoopNoAlert
    \/ LoopSleep

SpecLoop == InitLoop /\ [][NextLoop]_vars

(***************************************************************************)
(* SpecRial: the rial signal alone, fetched a few times, five minutes or   *)
(* an hour apart, on every page the three selectors can meet.              *)
(***************************************************************************)
MaxRialFetches == 3

RialDelays == {5, 60}

RialPages ==
    { Page(a, b, c) : a \in {Absent, Bad, IntText(0), IntText(100), IntText(103), IntText(106)},
                      b \in {Absent, Bad, IntText(100)},
                      c \in {Absent, Bad, IntText(106)} }

RialQueries ==
    {[ok |-> FALSE, page |-> Page(Absent, Absent, Absent)]}
        \cup {[ok |-> TRUE, page |-> pg] : pg \in RialPages}

InitRial ==
    /\ now = TimeWithDays(60, 720)
    /\ history = <<>>
    /\ produced = <<>>
    /\ call = [op |-> "init", n |-> 0]
    /\ last_alerted_level = "GREEN"
    /\ pc = "api"
    /\ telegram_result = Unbound
    /\ rial_result = Unbound
    /\ silence_result = Unbound
    /\ index = Unbound
    /\ price_history = <<>>
    /\ last_fetch_rate = None
    /\ ScraperIdle

\* await rial_signal.fetch(), the n-th call, d minutes after the one before.
RialFetchCall ==
    /\ call.n < MaxRialFetches
    /\ \E q \in RialQueries, d \in RialDelays :
           LET r == RialFetch(q, price_history, last_fetch_rate, now + d)
           IN  /\ now' = now + d
               /\ price_history' = r.price_history
               /\ last_fetch_rate' = r.last_fetch_rate
               /\ UNCHANGED <<messages_table, stats, cursor>>
               /\ call' = [op |-> "rial_fetch", n |-> call.n + 1, q |-> q, ret |-> r.ret]
    /\ UNCHANGED <<history, produced, last_alerted_level, pc, telegram_result,
                   rial_result, silence_result, index>>

NextRial == RialFetchCall

SpecRial == InitRial /\ [][NextRial]_vars

(***************************************************************************)
(* Properties of the aggregator.                                           *)
(***************************************************************************)
InRange(idx) ==
    /\ RLe(RInt(0), idx.score) /\ RLe(idx.score, RInt(100))
    /\ RLe(RInt(0), idx.confidence) /\ RLe(idx.confidence, RInt(1))

\* C1: after any sequence of aggregate calls with signals whose value is in
\* [0, 100] and confidence in [0, 1], on any day, the returned index and every
\* index in the history have 0 <= score <= 100 and 0 <= confidence <= 1.
C1_ScoreAndConfidenceInRange ==
    /\ \A i \in DOMAIN history : InRange(history[i])
    /\ call.op = "aggregate" => InRange(call.ret)

\* A second call returned a clamped score (raw 100 times multiplier 3) at full
\* confidence.
C1_Witness ==
    /\ call.op = "aggregate"
    /\ Len(history) = 2
    /\ call.ret.days_remaining = 0
    /\ call.ret.score = RInt(100)
    /\ call.ret.confidence = RInt(1)

\* The precondition of C5: no configured signal is in the input, or every
\* configured signal in it has confidence 0.
Configured == {weight_names[k] : k \in DOMAIN weight_names}

NoEffectiveSignal(signals) ==
    \A i \in DOMAIN signals :
        signals[i].name \in Configured => signals[i].confidence = RInt(0)

\* C5: with no configured signal present, or every configured signal present at
\* confidence 0, aggregate returns score 0, confidence 0, level GREEN and has
\* appended that index to the history.
C5_DegenerateFusion ==
    (call.op = "aggregate" /\ NoEffectiveSignal(call.signals)) =>
        /\ call.ret.score = RInt(0)
        /\ call.ret.confidence = RInt(0)
        /\ call.ret.level = "GREEN"
        /\ Len(history) = Len(produced)
        /\ history[Len(history)] = call.ret

\* Both configured signals were present, both at confidence 0 and one with a
\* positive value.
C5_Witness ==
    /\ call.op = "aggregate"
    /\ Len(call.signals) = 2
    /\ call.signals[1].name = "telegram_velocity"
    /\ call.signals[1].value = RInt(50)
    /\ call.signals[2].name = "rial_crash"
    /\ NoEffectiveSignal(call.signals)
    /\ history[Len(history)] = call.ret

\* C6: the multiplier is 1.0 at 60 days, 1.2 at 30, 1.5 at 14, 2.0 at 7, 3.0 at
\* 3 and 3.0 at 0 days remaining.
C6_MultiplierAtBoundaries ==
    call.op = "get_time_pressure_multiplier" =>
        /\ call.days = 60 => call.ret = RInt(1)
        /\ call.days = 30 => call.ret = <<6, 5>>
        /\ call.days = 14 => call.ret = <<3, 2>>
        /\ call.days = 7 => call.ret = RInt(2)
        /\ call.days = 3 => call.ret = RInt(3)
        /\ call.days = 0 => call.ret = RInt(3)

\* C7: the level of every index is GREEN when score < 35, YELLOW when
\* 35 <= score < 65 and RED when score >= 65.
StepLevel(idx) ==
    /\ RLt(idx.score, RInt(35)) => idx.level = "GREEN"
    /\ (RLe(RInt(35), idx.score) /\ RLt(idx.score, RInt(65))) => idx.level = "YELLOW"
    /\ RLe(RInt(65), idx.score) => idx.level = "RED"

C7_LevelIsStepOfScore ==
    /\ \A i \in DOMAIN history : StepLevel(history[i])
    /\ call.op = "aggregate" => StepLevel(call.ret)

\* The history holds a score of exactly 65 and a score of exactly 35.
C7_Witness ==
    /\ Len(history) = 2
    /\ history[1].score = RInt(65) /\ history[1].level = "RED"
    /\ history[2].score = RInt(35) /\ history[2].level = "YELLOW"

\* The rate of change as the specification words it: among the entries whose
\* timestamp lies in the trailing window, the score of the one with the latest
\* timestamp minus the score of the one with the earliest; undefined with fewer
\* than two such entries.
InWindow(h, minutes, t) == {i \in DOMAIN h : h[i].timestamp >= t - minutes}

Earliest(h, W) == CHOOSE i \in W : \A j \in W : h[i].timestamp <= h[j].timestamp

Latest(h, W) == CHOOSE i \in W : \A j \in W : h[j].timestamp <= h[i].timestamp

WindowRate(h, minutes, t) ==
    LET W == InWindow(h, minutes, t)
    IN  IF Cardinality(W) < 2 THEN None
        ELSE RSub(h[Latest(h, W)].score, h[Earliest(h, W)].score)

\* C2: should_alert, asked right after aggregate appended the current index,
\* answers true exactly when the level differs from last_alerted_level, or the
\* level is RED, or the 10-minute rate of change is defined and above 20.
C2_AlertDecision ==
    call.op = "should_alert" =>
        LET roc == WindowRate(history, 10, now)
        IN  call.ret = ( \/ call.current.level # call.last
                         \/ call.current.level = "RED"
                         \/ (roc # None /\ RLt(RInt(20), roc)) )

\* An unchanged non-RED level alerted because the score rose by more than 20
\* within the window.
C2_Witness ==
    /\ call.op = "should_alert"
    /\ call.current.level = call.last
    /\ call.current.level = "YELLOW"
    /\ call.ret = TRUE

\* C4: get_rate_of_change(window) is undefined when fewer than 2 history entries
\* lie in the trailing window, and otherwise is the score of the latest entry in
\* the window minus the score of the earliest entry in the window.
C4_RateOfChange ==
    call.op = "get_rate_of_change" =>
        call.ret = WindowRate(history, call.minutes, now)

\* Three entries, the first outside the window, and a rate that is not the
\* difference over the whole history.
C4_Witness ==
    /\ call.op = "get_rate_of_change"
    /\ Len(history) = 3
    /\ history[1].timestamp < now - call.minutes
    /\ call.ret # None
    /\ call.ret # RSub(history[3].score, history[1].score)

\* Two entries in the history, one of them in the window: undefined.
C4_WitnessUndefined ==
    /\ call.op = "get_rate_of_change"
    /\ Len(history) = 2
    /\ call.ret = None

\* The last n elements of s, all of s when it is shorter.
LastN(s, n) == IF Len(s) <= n THEN s ELSE SubSeq(s, Len(s) - n + 1, Len(s))

\* C3: the history never holds more than 60 indices, and holds the most recent
\* 60 produced indices (all of them while there are at most 60) in the order
\* they were produced.
C3_HistoryBounded ==
    /\ Len(history) <= 60
    /\ history = LastN(produced, 60)

\* 62 indices produced: the two oldest are gone, the third is the head.
C3_Witness ==
    /\ Len(produced) = 62
    /\ Len(history) = 60
    /\ history[1] = produced[3]
    /\ history[1] # produced[1]

(***************************************************************************)
(* Properties of the polling loop and of the normalizers' failure paths.   *)
(***************************************************************************)
\* C8: last_alerted_level starts at GREEN; it changes only in the branch of a
\* cycle whose should_alert returned true, and then to that cycle's level;
\* the should_alert step changes neither last_alerted_level nor the history.
C8_AlertStateFrame ==
    /\ last_alerted_level = "GREEN"
    /\ [][ /\ last_alerted_level' # last_alerted_level =>
                /\ pc = "branch"
                /\ call.op = "should_alert"
                /\ call.ret = TRUE
                /\ call.current = index
                /\ last_alerted_level' = index.level
           /\ pc = "should_alert" =>
                /\ last_alerted_level' = last_alerted_level
                /\ history' = history ]_vars

\* The second cycle's should_alert returned false and the level alerted in the
\* first cycle is kept.
C8_Witness ==
    /\ pc = "sleep"
    /\ Len(history) = 2
    /\ call.op = "should_alert"
    /\ call.ret = FALSE
    /\ last_alerted_level = "YELLOW"

\* The fetch of the telegram or rial normalizer failed: its evidence names an error.
FetchFailed(s) == "error" \in DOMAIN s.raw_value

\* The silence normalizer queried its channels.
SilenceQueried(s) == "channel_silence" \in DOMAIN s.raw_value

\* A query of the silence normalizer raised.
SilenceQueryError(s) ==
    /\ SilenceQueried(s)
    /\ \E i \in DOMAIN s.raw_value.channel_silence :
           s.raw_value.channel_silence[i].status = "error"

\* No query of the silence normalizer gave a last post.
SilenceUnanswered(s) ==
    /\ SilenceQueried(s)
    /\ \A i \in DOMAIN s.raw_value.channel_silence :
           s.raw_value.channel_silence[i].status # "post"

\* The cycle at hand has fetched the three signals and aggregated them.
Aggregated == pc \in {"print", "should_alert", "branch", "sleep"}

\* From the aggregate call to the sleep, the three results and the index are
\* those of this cycle and the index is the newest entry of the history.
CycleWentThrough ==
    /\ telegram_result.timestamp = now
    /\ rial_result.timestamp = now
    /\ silence_result.timestamp = now
    /\ index.timestamp = now
    /\ history[Len(history)] = index

\* The index is the fusion of the signals left when those in failed are dropped.
FusedFromRemaining(failed) ==
    LET signals == <<telegram_result, rial_result, silence_result>>
        remaining == SelectSeq(signals, LAMBDA x : x.name \notin failed)
    IN  /\ index = AggregateIndex(remaining, now)
        /\ remaining = <<>> => index.score = RInt(0)

C9_WitnessRemaining ==
    /\ pc = "print"
    /\ FetchFailed(rial_result)
    /\ ~FetchFailed(telegram_result)
    /\ index.score = RInt(65)

\* C10: a rial fetch that ends in a fetch failure, a parse failure or a rate
\* that is not found returns value 0 and confidence 0 with the cause in its
\* evidence, and leaves price_history as it was.
C10_RialFailureFrame ==
    [][ call'.op = "rial_fetch" =>
          LET q == call'.q
              r == call'.ret
          IN  /\ ~q.ok => FetchFailed(r) /\ r.raw_value.error = "fetch_failed"
              /\ (q.ok /\ q.page.usd_sell.kind = "bad") =>
                     FetchFailed(r) /\ r.raw_value.error = "parse_failed"
              /\ (q.ok /\ \A f \in {q.page.usd_sell, q.page.usd_row, q.page.usd_data} :
                              f.kind = "absent" \/ (f.kind = "int" /\ f.val = 0)) =>
                     FetchFailed(r) /\ r.raw_value.error = "rate_not_found"
              /\ FetchFailed(r) =>
                     /\ r.raw_value.error \in {"fetch_failed", "parse_failed", "rate_not_found"}
                     /\ r.value = RInt(0)
                     /\ r.confidence = RInt(0)
                     /\ price_history' = price_history
                     /\ last_fetch_rate' = last_fetch_rate ]_vars

\* A fetch found no rate after two samples were stored, and the two are still there.
C10_Witness ==
    /\ call.op = "rial_fetch"
    /\ call.n = 3
    /\ FetchFailed(call.ret)
    /\ call.ret.raw_value.error = "rate_not_found"
    /\ Len(price_history) = 2

(***************************************************************************)
(* The price-crash normalizer.                                             *)
(***************************************************************************)
\* The stored samples taken at or before one hour before the clock.
HourOld == {i \in 1..Len(price_history) : price_history[i][1] <= now - 60}

\* Of those, the most recent one.
MostRecentHourOld == CHOOSE i \in HourOld : \A j \in HourOld : j <= i

\* What the claim gives for the current rate against the stored samples.
CrashValue(rate) ==
    IF HourOld = {} THEN RInt(0)
    ELSE LET p == price_history[MostRecentHourOld][2]
         IN  IF rate > p THEN RMin(RInt(100), Rat(20 * 100 * (rate - p), p))
             ELSE RInt(0)

\* C11: on every successful rial fetch, with p the rate of the most recent
\* stored sample at or before now minus one hour, the value is
\* min(100, 20 * 100 * (rate - p) / p) when p exists and the rate is above p,
\* and 0 when the rate is at or below p or no such sample exists; the value
\* is always in [0, 100].
C11_CrashNormalizer ==
    (call.op = "rial_fetch" /\ ~FetchFailed(call.ret)) =>
        /\ call.ret.value = CrashValue(call.ret.raw_value.rate)
        /\ RLe(RInt(0), call.ret.value)
        /\ RLe(call.ret.value, RInt(100))

\* A 3% rise over the sample of an hour ago gives 60.
C11_Witness ==
    /\ call.op = "rial_fetch"
    /\ ~FetchFailed(call.ret)
    /\ HourOld # {}
    /\ call.ret.raw_value.rate = 103
    /\ price_history[MostRecentHourOld][2] = 100
    /\ call.ret.value = RInt(60)

\* A 6% rise is capped at 100.
C11_WitnessCapped ==
    /\ call.op = "rial_fetch"
    /\ ~FetchFailed(call.ret)
    /\ HourOld # {}
    /\ call.ret.raw_value.rate = 106
    /\ price_history[MostRecentHourOld][2] = 100
    /\ call.ret.value = RInt(100)

\* A drop against the sample of an hour ago gives 0, whatever the older samples.
C11_WitnessDrop ==
    /\ call.op = "rial_fetch"
    /\ ~FetchFailed(call.ret)
    /\ HourOld # {}
    /\ call.ret.raw_value.rate = 103
    /\ price_history[MostRecentHourOld][2] = 106
    /\ price_history[1][2] = 100
    /\ call.ret.value = RInt(0)

\* A rise with no sample an hour old gives 0.
C11_WitnessNoSample ==
    /\ call.op = "rial_fetch"
    /\ ~FetchFailed(call.ret)
    /\ HourOld = {}
    /\ Len(price_history) = 2
    /\ price_history[1][2] < call.ret.raw_value.rate
    /\ call.ret.value = RInt(0)

(***************************************************************************)
(* SpecTel: the telegram signal alone, fetched once on every result the    *)
(* query can give: rows of critical messages from three channels and of    *)
(* routine, unclear and empty messages from a fourth.                      *)
(***************************************************************************)
MaxRows == 5

UnclearText == {"khamenei_zwnj", "bimarestan"}

TelRows ==
    { Row(DeceaseText, ch) : ch \in {"ch1", "ch2", "ch3"} }
        \cup { Row(txt, "ch4") : txt \in {VisitText, UnclearText, {}} }

TelQueries ==
    {[ok |-> FALSE, rows |-> <<>>]}
        \cup {[ok |-> TRUE, rows |-> rows] :
                 rows \in UNION {[1..n -> TelRows] : n \in 0..MaxRows}}

InitTel ==
    /\ now = TimeWithDays(60, 720)
    /\ history = <<>>
    /\ produced = <<>>
    /\ call \in {[op |-> "init", n |-> 0, q |-> q] : q \in TelQueries}
    /\ last_alerted_level = "GREEN"
    /\ pc = "api"
    /\ telegram_result = Unbound
    /\ rial_result = Unbound
    /\ silence_result = Unbound
    /\ index = Unbound
    /\ price_history = <<>>
    /\ last_fetch_rate = None
    /\ ScraperIdle

\* telegram_signal.fetch() on the query result of this run.
TelegramFetchCall ==
    /\ call.op = "init"
    /\ call' = [op |-> "telegram_fetch", n |-> 1, q |-> call.q,
                ret |-> TelegramFetch(call.q, now)]
    /\ UNCHANGED <<now, history, produced, last_alerted_level, pc, telegram_result,
                   rial_result, silence_result, index, price_history, last_fetch_rate,
                   messages_table, stats, cursor>>

NextTel == TelegramFetchCall

SpecTel == InitTel /\ [][NextTel]_vars

(***************************************************************************)
(* The velocity normalizer.                                                *)
(***************************************************************************)
\* The rows of the query result that count as critical messages.
CriticalRows(rows) ==
    {i \in DOMAIN rows : rows[i].text # {} /\ score_message(rows[i].text) >= 3}

\* base(c) and amp(k) as the claim states them.
VelocityBase(c) ==
    IF c = 0 THEN 0 ELSE IF c = 1 THEN 25 ELSE IF c = 2 THEN 50
    ELSE IF c = 3 THEN 75 ELSE 100

VelocityAmp(k) == IF k >= 3 THEN <<3, 2>> ELSE IF k = 2 THEN <<13, 10>> ELSE RInt(1)

\* C12: for c critical messages from k distinct channels the telegram fetch
\* returns value = min(100, base(c) * amp(k)), base being 0, 25, 50, 75, 100
\* for c = 0, 1, 2, 3, >= 4 and amp being 1.5 for k >= 3, 1.3 for k = 2 and
\* 1 otherwise; 0 critical gives 0, 3 critical from 1 channel give 75, and
\* 3 critical from 3 channels give 100.
C12_VelocityNormalizer ==
    (call.op = "telegram_fetch" /\ call.q.ok) =>
        LET rows == call.q.rows
            c == Cardinality(CriticalRows(rows))
            k == Cardinality({rows[i].channel : i \in CriticalRows(rows)})
        IN  /\ call.ret.value =
                   RMin(RInt(100), RMul(RInt(VelocityBase(c)), VelocityAmp(k)))
            /\ c = 0 => call.ret.value = RInt(0)
            /\ (c = 3 /\ k = 1) => call.ret.value = RInt(75)
            /\ (c = 3 /\ k = 3) => call.ret.value = RInt(100)

\* Three critical messages from three channels, with a routine one from a fourth.
C12_Witness ==
    /\ call.op = "telegram_fetch"
    /\ call.q.ok
    /\ Cardinality(CriticalRows(call.q.rows)) = 3
    /\ Cardinality({call.q.rows[i].channel : i \in DOMAIN call.q.rows}) = 4
    /\ call.ret.raw_value.channels_reporting_critical = 3
    /\ call.ret.value = RInt(100)

\* Three critical messages from two channels give 97.5.
C12_WitnessTwoChannels ==
    /\ call.op = "telegram_fetch"
    /\ call.q.ok
    /\ Cardinality(CriticalRows(call.q.rows)) = 3
    /\ call.ret.raw_value.channels_reporting_critical = 2
    /\ call.ret.value = <<195, 2>>

\* Three critical messages from one channel give 75.
C12_WitnessOneChannel ==
    /\ call.op = "telegram_fetch"
    /\ call.q.ok
    /\ Cardinality(CriticalRows(call.q.rows)) = 3
    /\ Len(call.q.rows) = 4
    /\ call.ret.raw_value.channels_reporting_critical = 1
    /\ call.ret.value = RInt(75)

(***************************************************************************)
(* SpecScore: _score_message applied, twice over, to every text of up to   *)
(* MaxPhrases phrases of a vocabulary that holds subject, decease, slogan, *)
(* hospital, succession and routine phrases and one phrase with no keyword.*)
(***************************************************************************)
MaxPhrases == 5

MaxScoreCalls == 2

Vocabulary ==
    {"khamenei_zwnj", "rahbar_enghelab", "marg_bar_khamenei_zwnj",
     "fot", "dargozasht", "marg", "marg_bar",
     "bimarestan", "vakhim", "hal", "janeshin", "khobregan",
     "didar", "sokhanrani", "payam", "tabrik", "other"}

Texts == {txt \in SUBSET Vocabulary : Cardinality(txt) <= MaxPhrases}

InitScore ==
    /\ now = TimeWithDays(60, 720)
    /\ history = <<>>
    /\ produced = <<>>
    /\ call \in {[op |-> "init", n |-> 0, text |-> txt] : txt \in Texts}
    /\ last_alerted_level = "GREEN"
    /\ pc = "api"
    /\ telegram_result = Unbound
    /\ rial_result = Unbound
    /\ silence_result = Unbound
    /\ index = Unbound
    /\ price_history = <<>>
    /\ last_fetch_rate = None
    /\ ScraperIdle

\* self._score_message(text); prev is what the call before returned for the text.
ScoreMessageCall ==
    /\ call.n < MaxScoreCalls
    /\ call' = [op |-> "score_message", n |-> call.n + 1, text |-> call.text,
                ret |-> score_message(call.text),
                prev |-> IF call.op = "init" THEN None ELSE <<call.ret>>]
    /\ UNCHANGED <<now, history, produced, last_alerted_level, pc, telegram_result,
                   rial_result, silence_result, index, price_history, last_fetch_rate,
                   messages_table, stats, cursor>>

NextScore == ScoreMessageCall

SpecScore == InitScore /\ [][NextScore]_vars

(***************************************************************************)
(* The threat scorer.                                                      *)
(***************************************************************************)
\* The phrases of the vocabulary that hold a subject keyword, a decease
\* keyword, the slogan.
SubjectPhrases == {"khamenei_zwnj", "rahbar_enghelab", "marg_bar_khamenei_zwnj"}
DeceasePhrases == {"fot", "dargozasht"}
SloganPhrases == {"marg_bar", "marg_bar_khamenei_zwnj"}

\* C13: every text with a subject keyword and a decease keyword that is not
\* itself part of the slogan phrase scores at least 4, whatever routine
\* keywords and whatever other phrases the text also contains.
C13_MortalityFloor ==
    (/\ call.op = "score_message"
     /\ call.text \cap SubjectPhrases # {}
     /\ call.text \cap DeceasePhrases # {}) => call.ret >= 4

\* The floor holds in the texts that hold no slogan phrase at all.
C13_FloorWithoutSlogan ==
    (/\ call.op = "score_message"
     /\ call.text \cap SubjectPhrases # {}
     /\ call.text \cap DeceasePhrases # {}
     /\ call.text \cap SloganPhrases = {}) => call.ret >= 4

\* The floor lifts a text whose routine keywords outweigh its decease keyword.
C13_WitnessFloor ==
    /\ call.op = "score_message"
    /\ call.text = {"khamenei_zwnj", "fot", "didar", "sokhanrani", "payam"}
    /\ call.ret = 4

\* A decease report next to a slogan against someone else scores 2.
C13_WitnessSlogan ==
    /\ call.op = "score_message"
    /\ call.text = {"khamenei_zwnj", "dargozasht", "marg_bar"}
    /\ call.ret = 2

C14_WitnessTop ==
    /\ call.op = "score_message"
    /\ call.text = {"khamenei_zwnj", "bimarestan", "vakhim", "janeshin", "khobregan"}
    /\ call.ret = 5

(***************************************************************************)
(* SpecSilence: the silence signal alone, fetched once, at moments on both *)
(* sides of both ends of the Tehran business hours, on every answer the    *)
(* three channel queries can give.                                         *)
(***************************************************************************)
MaxGapHours == 5

\* Minutes from a channel's last post to now.
Gaps == {30, 60, 61, 90} \cup {60 * h : h \in 2..MaxGapHours}

ChannelAnswers == {QueryError, NoData} \cup {Post(g) : g \in Gaps}

SilenceQueries == [1..Len(REGIME_CHANNELS) -> ChannelAnswers]

\* UTC 04:29 and 04:30 (07:59 and 08:00 in Tehran), 12:00, 20:29 and 20:30
\* (23:59 and 00:00 in Tehran), 23:30 (03:00 in Tehran).
SilenceTimes == {TimeWithDays(60, m) : m \in {269, 270, 720, 1229, 1230, 1410}}

InitSilence ==
    /\ now \in SilenceTimes
    /\ history = <<>>
    /\ produced = <<>>
    /\ call \in {[op |-> "init", n |-> 0, q |-> q] : q \in SilenceQueries}
    /\ last_alerted_level = "GREEN"
    /\ pc = "api"
    /\ telegram_result = Unbound
    /\ rial_result = Unbound
    /\ silence_result = Unbound
    /\ index = Unbound
    /\ price_history = <<>>
    /\ last_fetch_rate = None
    /\ ScraperIdle

\* silence_signal.fetch() on the channel answers of this run.
SilenceFetchCall ==
    /\ call.op = "init"
    /\ call' = [op |-> "silence_fetch", n |-> 1, q |-> call.q,
                ret |-> SilenceFetch(call.q, now),
                queries |-> SilenceQueriesIssued(now)]
    /\ UNCHANGED <<now, history, produced, last_alerted_level, pc, telegram_result,
                   rial_result, silence_result, index, price_history, last_fetch_rate,
                   messages_table, stats, cursor>>

NextSilence == SilenceFetchCall

SpecSilence == InitSilence /\ [][NextSilence]_vars

(***************************************************************************)
(* The silence normalizer.                                                 *)
(***************************************************************************)
\* The clock reads a moment from 08:00 to 23:59 Tehran time (UTC+3:30).
ActiveHours == ((now + 210) % MinutesPerDay) >= 8 * 60

\* The channels whose query gave a last post, and the largest gap among them.
Answering(q) == {k \in DOMAIN q : q[k].status = "post"}

MaxGap(q) == CHOOSE g \in {q[k].gap : k \in Answering(q)} :
                 \A k \in Answering(q) : q[k].gap <= g

\* C15: outside the active hours the silence fetch returns value 0 and
\* confidence exactly 0.3 without querying any source, whatever the posting
\* gaps; inside them it returns 0 when the maximum gap over the answering
\* sources is at most 1 hour and min(100, (max_gap_hours - 1) * 50)
\* otherwise, so that a gap of 4 hours gives 100.
C15_SilenceNormalizer ==
    call.op = "silence_fetch" =>
        /\ ~ActiveHours =>
               /\ call.ret.value = RInt(0)
               /\ call.ret.confidence = <<3, 10>>
               /\ call.queries = 0
        /\ (ActiveHours /\ Answering(call.q) = {}) => call.ret.value = RInt(0)
        /\ (ActiveHours /\ Answering(call.q) # {}) =>
               LET g == MaxGap(call.q)
               IN  /\ g <= 60 => call.ret.value = RInt(0)
                   /\ g > 60 => call.ret.value =
                                    RMin(RInt(100), Rat((g - 60) * 50, 60))
                   /\ g = 240 => call.ret.value = RInt(100)

\* At 00:00 Tehran time, with a channel five hours silent: value 0, confidence 0.3.
C15_Witness ==
    /\ call.op = "silence_fetch"
    /\ now = TimeWithDays(60, 1230)
    /\ \E k \in DOMAIN call.q : call.q[k] = Post(300)
    /\ call.queries = 0
    /\ call.ret.value = RInt(0)
    /\ call.ret.confidence = <<3, 10>>

\* At 23:59 Tehran time a largest gap of four hours gives 100.
C15_WitnessFourHours ==
    /\ call.op = "silence_fetch"
    /\ now = TimeWithDays(60, 1229)
    /\ Answering(call.q) # {}
    /\ MaxGap(call.q) = 240
    /\ call.queries = 3
    /\ call.ret.value = RInt(100)

\* At 08:00 Tehran time a largest gap of an hour and a half is on the ramp: 25.
C15_WitnessRamp ==
    /\ call.op = "silence_fetch"
    /\ now = TimeWithDays(60, 270)
    /\ Answering(call.q) # {}
    /\ MaxGap(call.q) = 90
    /\ call.ret.value = RInt(25)

(***************************************************************************)
(* scraper.py.  A message is [channel_id, message_id]; a row of the table  *)
(* keeps these two columns and whether it was written for an edit.         *)
(***************************************************************************)
\* ClickHouseManager.message_exists(channel_id, message_id) on the table tbl;
\* query_ok is FALSE when the SELECT raises.
message_exists(tbl, channel_id, message_id, query_ok) ==
    IF query_ok
    THEN \E i \in DOMAIN tbl :
             tbl[i].channel_id = channel_id /\ tbl[i].message_id = message_id
    ELSE FALSE

\* ClickHouseManager.insert_message(message_data)
insert_message(tbl, message_data) == Append(tbl, message_data)

\* TelegramScraper._process_message(message, is_edit) on the table tbl and
\* the counters st; insert_ok is FALSE when the INSERT raises, which the
\* except of the method logs.
process_message(tbl, st, message, is_edit, query_ok, insert_ok) ==
    IF ~is_edit /\ message_exists(tbl, message.channel_id, message.message_id, query_ok)
    THEN [messages_table |-> tbl, stats |-> [st EXCEPT !.skipped = @ + 1],
          inserted |-> FALSE]
    ELSE IF ~insert_ok
    THEN [messages_table |-> tbl, stats |-> st, inserted |-> FALSE]
    ELSE [messages_table |->
              insert_message(tbl, [message_id |-> message.message_id,
                                   channel_id |-> message.channel_id,
                                   edit |-> is_edit]),
          stats |-> [st EXCEPT !.inserted = @ + 1],
          inserted |-> TRUE]

(***************************************************************************)
(* SpecScraper: the scraper process started, stopped and started again on  *)
(* the same table: main() fetches the history of the two channels, then    *)
(* listens for new and edited messages.  Every query and every insert may  *)
(* raise.                                                                  *)
(***************************************************************************)
MaxStarts == 2

MaxLiveEvents == 2

Message(channel_id, message_id) == [channel_id |-> channel_id, message_id |-> message_id]

\* What iter_messages yields over the resolved channels, in order.
HistoryItems == <<Message(1, 1), Message(2, 1)>>

\* The messages an event can carry: those of the history and a later one.
LiveMessages == {Message(1, 1), Message(2, 1), Message(1, 2)}

ScraperCall(op, message, is_edit, inserted, starts, events) ==
    [op |-> op, message |-> message, is_edit |-> is_edit, inserted |-> inserted,
     starts |-> starts, events |-> events]

ScraperOnly ==
    UNCHANGED <<now, history, produced, last_alerted_level, telegram_result,
                rial_result, silence_result, index, price_history, last_fetch_rate>>

InitScraper ==
    /\ now = TimeWithDays(60, 720)
    /\ history = <<>>
    /\ produced = <<>>
    /\ call = ScraperCall("init", Message(0, 0), FALSE, FALSE, 0, 0)
    /\ last_alerted_level = "GREEN"
    /\ pc = "down"
    /\ telegram_result = Unbound
    /\ rial_result = Unbound
    /\ silence_result = Unbound
    /\ index = Unbound
    /\ price_history = <<>>
    /\ last_fetch_rate = None
    /\ messages_table = <<>>
    /\ stats = [inserted |-> 0, skipped |-> 0]
    /\ cursor = 0

\* main(): a new TelegramScraper, connect, resolve, and into fetch_history.
ScraperMain ==
    /\ pc = "down"
    /\ call.starts < MaxStarts
    /\ pc' = "fetch_history"
    /\ cursor' = 1
    /\ stats' = [inserted |-> 0, skipped |-> 0]
    /\ call' = ScraperCall("main", Message(0, 0), FALSE, FALSE, call.starts + 1,
                            call.events)
    /\ UNCHANGED messages_table
    /\ ScraperOnly

\* One turn of the loop of fetch_history, on the message at the cursor.
FetchHistoryStep ==
    /\ pc = "fetch_history"
    /\ cursor \in DOMAIN HistoryItems
    /\ \E first_ok \in BOOLEAN, query_ok \in BOOLEAN, insert_ok \in BOOLEAN :
           LET message == HistoryItems[cursor]
           IN  IF message_exists(messages_table, message.channel_id,
                                 message.message_id, first_ok)
               THEN /\ UNCHANGED <<messages_table, stats>>
                    /\ call' = ScraperCall("fetch_history", message, FALSE, FALSE,
                                           call.starts, call.events)
               ELSE LET r == process_message(messages_table, stats, message, FALSE,
                                             query_ok, insert_ok)
                    IN  /\ messages_table' = r.messages_table
                        /\ stats' = r.stats
                        /\ call' = ScraperCall("fetch_history", message, FALSE,
                                               r.inserted, call.starts, call.events)
    /\ cursor' = cursor + 1
    /\ UNCHANGED pc
    /\ ScraperOnly

\* fetch_history is through; start() registers the handlers and listens.
ScraperStart ==
    /\ pc = "fetch_history"
    /\ cursor = Len(HistoryItems) + 1
    /\ pc' = "listening"
    /\ cursor' = 0
    /\ call' = ScraperCall("start", Message(0, 0), FALSE, FALSE, call.starts, call.events)
    /\ UNCHANGED <<messages_table, stats>>
    /\ ScraperOnly

\* handle_new_message(event)
NewMessageEvent ==
    /\ pc = "listening"
    /\ call.events < MaxLiveEvents
    /\ \E message \in LiveMessages, query_ok \in BOOLEAN, insert_ok \in BOOLEAN :
           LET r == process_message(messages_table, stats, message, FALSE,
                                    query_ok, insert_ok)
           IN  /\ messages_table' = r.messages_table
               /\ stats' = r.stats
               /\ call' = ScraperCall("new_message", message, FALSE, r.inserted,
                                      call.starts, call.events + 1)
    /\ UNCHANGED <<pc, cursor>>
    /\ ScraperOnly

\* handle_edited_message(event)
MessageEditedEvent ==
    /\ pc = "listening"
    /\ call.events < MaxLiveEvents
    /\ \E message \in LiveMessages, query_ok \in BOOLEAN, insert_ok \in BOOLEAN :
           LET r == process_message(messages_table, stats, message, TRUE,
                                    query_ok, insert_ok)
           IN  /\ messages_table' = r.messages_table
               /\ stats' = r.stats
               /\ call' = ScraperCall("edited_message", message, TRUE, r.inserted,
                                      call.starts, call.events + 1)
    /\ UNCHANGED <<pc, cursor>>
    /\ ScraperOnly

\* The process ends (KeyboardInterrupt, a crash, a kill); the table stays.
ScraperStop ==
    /\ pc \in {"fetch_history", "listening"}
    /\ pc' = "down"
    /\ cursor' = 0
    /\ call' = ScraperCall("stop", Message(0, 0), FALSE, FALSE, call.starts, call.events)
    /\ UNCHANGED <<messages_table, stats>>
    /\ ScraperOnly

NextScraper ==
    \/ ScraperMain
    \/ FetchHistoryStep
    \/ ScraperStart
    \/ NewMessageEvent
    \/ MessageEditedEvent
    \/ ScraperStop

SpecScraper == InitScraper /\ [][NextScraper]_vars

(***************************************************************************)
(* Duplicate detection of the scraper.                                     *)
(***************************************************************************)
\* Some row of the table holds the message.
Stored(tbl, message) ==
    \E i \in DOMAIN tbl :
        tbl[i].channel_id = message.channel_id /\ tbl[i].message_id = message.message_id

\* C16: across history fetches, new-message events and restarts of the
\* scraper, a non-edit message whose (channel_id, message_id) is already
\* stored is never inserted again; fetch_history after a restart adds no row
\* for a message that is already in the table.
C16_NoDuplicateInsert ==
    [][ (call'.inserted /\ ~call'.is_edit) => ~Stored(messages_table, call'.message)
      ]_vars

\* After a restart fetch_history has written a second row for message 1 of channel 1.
C16_WitnessDuplicate ==
    /\ call.op = "fetch_history"
    /\ call.starts = 2
    /\ call.inserted
    /\ messages_table = <<[message_id |-> 1, channel_id |-> 1, edit |-> FALSE],
                          [message_id |-> 1, channel_id |-> 2, edit |-> FALSE],
                          [message_id |-> 1, channel_id |-> 1, edit |-> FALSE]>>

\* After a restart fetch_history has skipped both stored messages.
C16_WitnessSkipped ==
    /\ pc = "fetch_history"
    /\ call.starts = 2
    /\ cursor = Len(HistoryItems) + 1
    /\ Len(messages_table) = 2
    /\ stats = [inserted |-> 0, skipped |-> 0]

(***************************************************************************)
(* The fused confidence.                                                   *)
(***************************************************************************)
\* confidence * static weight of the signal the input holds under a
\* configured name (the last one, when it holds several), 0 when it holds none.
ConfidenceTerm(signals, name) ==
    LET at == {i \in DOMAIN signals : signals[i].name = name}
    IN  IF at = {} THEN RInt(0)
        ELSE LET last == CHOOSE i \in at : \A j \in at : j <= i
             IN  RMul(signals[last].confidence, weights[name])

AllStaticWeights ==
    RAdd(RAdd(weights.telegram_velocity, weights.rial_crash), weights.state_media_silence)

\* C17: the fused confidence of every aggregate call is the sum of
\* confidence * static weight over the configured signals present in the
\* input, divided by the sum of all configured static weights, present or
\* not, when that sum is positive, and 0 otherwise; with the default weights
\* an input without telegram_velocity never gets a confidence above 0.4.
C17_FusedConfidence ==
    call.op = "aggregate" =>
        LET signals == call.signals
            sum == RAdd(RAdd(ConfidenceTerm(signals, "telegram_velocity"),
                             ConfidenceTerm(signals, "rial_crash")),
                        ConfidenceTerm(signals, "state_media_silence"))
        IN  /\ call.ret.confidence =
                   IF RLt(RInt(0), AllStaticWeights) THEN RDiv(sum, AllStaticWeights)
                   ELSE RInt(0)
            /\ (\A i \in DOMAIN signals : signals[i].name # "telegram_velocity") =>
                   RLe(call.ret.confidence, <<2, 5>>)

\* Rial at confidence 1 with the silence signal and no telegram: exactly 0.4.
C17_Witness ==
    /\ call.op = "aggregate"
    /\ Len(call.signals) = 2
    /\ call.signals[1].name = "state_media_silence"
    /\ call.signals[2].name = "rial_crash"
    /\ call.signals[2].confidence = RInt(1)
    /\ call.ret.confidence = <<2, 5>>

\* Telegram at confidence 0.6 and rial at confidence 1: 0.36 + 0.4.
C17_WitnessBoth ==
    /\ call.op = "aggregate"
    /\ Len(call.signals) = 2
    /\ call.signals[1].name = "telegram_velocity"
    /\ call.signals[1].confidence = <<3, 5>>
    /\ call.signals[2].name = "rial_crash"
    /\ call.signals[2].confidence = RInt(1)
    /\ call.ret.confidence = <<19, 25>>

(***************************************************************************)
(* The alert level at the end of a polling cycle.                          *)
(***************************************************************************)
\* The positions of a cycle from its start to the last statement that can raise.
BeforeBranch == {"telegram", "rial", "silence", "aggregate", "print", "should_alert"}

\* C18: at the end of every polling cycle that completes without an
\* exception last_alerted_level is the level of the index produced in that
\* cycle, for any sequence of cycles starting from GREEN; a cycle that
\* raises leaves last_alerted_level unchanged, and the loop goes on to the
\* next cycle.
C18_CycleEndLevel ==
    [][ /\ (pc = "branch" /\ pc' = "sleep") =>
               /\ index' = produced'[Len(produced')]
               /\ last_alerted_level' = index'.level
        /\ pc \in BeforeBranch => last_alerted_level' = last_alerted_level
        /\ (pc = "print" /\ pc' # "should_alert") => (pc' = "sleep" /\ call'.op = "except")
        /\ pc = "sleep" => (pc' = "telegram" /\ last_alerted_level' = last_alerted_level)
      ]_vars

\* Between cycles the level on record is that of the last index, unless the
\* cycle raised.
C18_LevelBetweenCycles ==
    (pc = "sleep" /\ call.op # "except") => last_alerted_level = index.level

\* The second cycle ended without an exception on a level other than that of
\* the first, and last_alerted_level has followed.
C18_Witness ==
    /\ pc = "sleep"
    /\ call.op = "should_alert"
    /\ Len(produced) = 2
    /\ produced[1].level = "RED"
    /\ produced[2].level = "GREEN"
    /\ index = produced[2]
    /\ last_alerted_level = "GREEN"

\* The cycle raised after it had produced a RED index: the level on record
\* is still GREEN.
C18_WitnessRaised ==
    /\ pc = "sleep"
    /\ call.op = "except"
    /\ index.level = "RED"
    /\ last_alerted_level = "GREEN"

\* After a cycle that raised, the next one has started.
C18_WitnessGoesOn ==
    /\ pc = "rial"
    /\ call.op = "except"
    /\ Len(produced) = 1

====
